---- MODULE Spec2Model ----
(***************************************************************************)
(* Model of packages/sw-cli/src/index.js (class SWCli): the dispatch of a  *)
(* command line to handleFlag / handleCommand, the generate:sw and         *)
(* generate:manifest promise chains, and the exit code chosen by argv().   *)
(*                                                                         *)
(* A string that holds a path is kept as the sequence of its pieces        *)
(* between separators (what s.split('/') gives): '' is <<"">>, 'build' is  *)
(* <<"build">>, './build/' is <<".", "build", "">>, '/' is <<"", "">>.     *)
(* a + '/' + b is then a \o b, so no text is lost or added by the          *)
(* representation.                                                         *)
(***************************************************************************)
EXTENDS Integers, Sequences, FiniteSets, TLC

\* Longest command line the model enumerates.
MaxArgs == 3

-----------------------------------------------------------------------------
\* Strings and node's path module (posix), as index.js uses it.

EmptyStr == <<"">>
Dot == <<".">>
Sep == <<"", "">>
\* process.cwd()
Cwd == <<"", "w">>

IsAbsolute(p) == Len(p) > 1 /\ p[1] = ""

EndsWithSep(p) == Len(p) > 1 /\ p[Len(p)] = ""

\* path's normalizeString: drops '' and '.', resolves '..'.
RECURSIVE NormalizeString(_, _, _)
NormalizeString(segs, acc, allowAboveRoot) ==
    IF segs = <<>> THEN acc
    ELSE LET s == Head(segs)
             rest == Tail(segs)
         IN  IF s = "" \/ s = "."
             THEN NormalizeString(rest, acc, allowAboveRoot)
             ELSE IF s = ".."
             THEN IF acc # <<>> /\ acc[Len(acc)] # ".."
                  THEN NormalizeString(rest, SubSeq(acc, 1, Len(acc) - 1), allowAboveRoot)
                  ELSE IF allowAboveRoot
                       THEN NormalizeString(rest, Append(acc, ".."), allowAboveRoot)
                       ELSE NormalizeString(rest, acc, allowAboveRoot)
             ELSE NormalizeString(rest, Append(acc, s), allowAboveRoot)

\* path.normalize
Normalize(p) ==
    IF p = EmptyStr THEN Dot
    ELSE LET abs == IsAbsolute(p)
             segs == NormalizeString(p, <<>>, ~abs)
         IN  IF segs = <<>>
             THEN IF abs THEN Sep ELSE IF EndsWithSep(p) THEN <<".", "">> ELSE Dot
             ELSE (IF abs THEN <<"">> ELSE <<>>) \o segs
                      \o (IF EndsWithSep(p) THEN <<"">> ELSE <<>>)

RECURSIVE JoinParts(_)
JoinParts(parts) ==
    IF parts = <<>> THEN <<>>
    ELSE IF Head(parts) = EmptyStr THEN JoinParts(Tail(parts))
    ELSE Head(parts) \o JoinParts(Tail(parts))

\* path.join(...parts): the non-empty parts joined by '/', then normalized.
PathJoin(parts) ==
    IF JoinParts(parts) = <<>> THEN Dot ELSE Normalize(JoinParts(parts))

\* path.resolve(p), as the pieces below the root.
Resolve(p) == NormalizeString(IF IsAbsolute(p) THEN p ELSE Cwd \o p, <<>>, FALSE)

RECURSIVE CommonLen(_, _)
CommonLen(a, b) ==
    IF a = <<>> \/ b = <<>> \/ Head(a) # Head(b) THEN 0
    ELSE 1 + CommonLen(Tail(a), Tail(b))

\* path.relative(from, to)
PathRelative(from, to) ==
    LET f == Resolve(from)
        t == Resolve(to)
        k == CommonLen(f, t)
        out == [i \in 1..(Len(f) - k) |-> ".."] \o SubSeq(t, k + 1, Len(t))
    IN  IF out = <<>> THEN EmptyStr ELSE out

\* path.join('.', path.relative(process.cwd(), rDirectory), path.sep)
PrettyRelative(rDirectory) ==
    PathJoin(<<Dot, PathRelative(Cwd, rDirectory), Sep>>)

-----------------------------------------------------------------------------
\* Command line parsing (minimist without options).

Commands == {"generate:sw", "generate:manifest", "generate"}
FlagTokens == {"-h", "--help", "-v", "--version"}
Tokens == Commands \cup FlagTokens

FlagKey(t) ==
    CASE t = "-h" -> "h"
      [] t = "--help" -> "help"
      [] t = "-v" -> "v"
      [] t = "--version" -> "version"

\* A flag followed by a token that is no flag takes it as its value (a
\* non-empty string, so the flag is truthy) and the token is no positional.
RECURSIVE Minimist(_, _)
Minimist(args, acc) ==
    IF args = <<>> THEN acc
    ELSE LET t == Head(args) IN
         IF t \in FlagTokens
         THEN LET set == [acc EXCEPT !.flags = @ \cup {FlagKey(t)}] IN
              IF Len(args) > 1 /\ args[2] \notin FlagTokens
              THEN Minimist(SubSeq(args, 3, Len(args)), set)
              ELSE Minimist(Tail(args), set)
         ELSE Minimist(Tail(args), [acc EXCEPT !.positional = Append(@, t)])

NoArgs == [positional |-> <<>>, flags |-> {}]

\* cliArgs._.length > 0
HasCommand(args) == args.positional # <<>>

\* The switch of handleCommand.
RouteByPrefix(command) ==
    CASE command = "generate:sw" -> "sw"
      [] command = "generate:manifest" -> "manifest"
      [] command = "generate" -> "sw"
      [] OTHER -> "invalid"
Route(command) ==
    CASE command = "generate:sw" -> "sw"
      [] command = "generate:manifest" -> "manifest"
      [] OTHER -> "invalid"

\* flags.h || flags.help
WantsHelp(flags) == "h" \in flags \/ "help" \in flags

\* flags.v || flags.version
WantsVersion(flags) == "v" \in flags \/ "version" \in flags

\* What handleFlag logs, in order.
FlagOutputVersionOnly(flags) ==
    IF WantsVersion(flags) THEN <<"version">>
    ELSE IF WantsHelp(flags) THEN <<"help">> ELSE <<>>
FlagOutput(flags) ==
    (IF WantsHelp(flags) THEN <<"help">> ELSE <<>>)
        \o (IF WantsVersion(flags) THEN <<"version">> ELSE <<>>)

\* handled
FlagHandledByHelpOnly(flags) == WantsHelp(flags)
FlagHandled(flags) == WantsHelp(flags) \/ WantsVersion(flags)

-----------------------------------------------------------------------------
\* The configuration object: a record holding only the keys that are set.

EmptyConfig == [k \in {} |-> TRUE]

Has(cfg, k) == k \in DOMAIN cfg

Set(cfg, k, v) == (k :> v) @@ cfg

\* !cfg[k] for a key holding a string or an array: undefined or ''.
Falsy(cfg, k) == ~Has(cfg, k) \/ cfg[k] = EmptyStr

\* !config.rootDirectory
AsksRoot(cfg) == Falsy(cfg, "rootDirectory")

\* !config.globPatterns: an array, truthy whenever it is there.
AsksExtensionsByRoot(cfg) == Falsy(cfg, "rootDirectory")
AsksExtensions(cfg) == ~Has(cfg, "globPatterns")

\* !config.dest
AsksName(cfg) == Falsy(cfg, "dest")

\* !config.wasSaved
NotSavedAlways(cfg) == TRUE
NotSaved(cfg) == ~Has(cfg, "wasSaved") \/ ~cfg["wasSaved"]

\* config = savedConfig; config.wasSaved = true
LoadedUnmarked(savedConfig) == savedConfig
Loaded(savedConfig) == Set(savedConfig, "wasSaved", TRUE)

\* lib/utils/generate-glob-pattern: one glob for the extensions under root.
GenerateGlobPattern(rootDirectory, extensions) ==
    [root |-> rootDirectory, exts |-> extensions]

\* config.dest = swDest; config.globIgnores = [swDest]
WithDest(cfg, swName) ==
    LET swDest == PathJoin(<<cfg["rootDirectory"], swName>>)
    IN  Set(Set(cfg, "dest", swDest), "globIgnores", <<swDest>>)

\* The object _generateBuildManifest hands to generateFileManifest.
ManifestConfigMarked(rootDirPath, exts, fileManifestName) ==
    [rootDirectory |-> rootDirPath,
     globPatterns |-> <<GenerateGlobPattern(rootDirPath, exts)>>,
     globIgnores |-> <<PathJoin(<<rootDirPath, fileManifestName>>)>>,
     dest |-> PathJoin(<<rootDirPath, fileManifestName>>),
     wasSaved |-> FALSE]
ManifestConfig(rootDirPath, exts, fileManifestName) ==
    [rootDirectory |-> rootDirPath,
     globPatterns |-> <<GenerateGlobPattern(rootDirPath, exts)>>,
     globIgnores |-> <<PathJoin(<<rootDirPath, fileManifestName>>)>>,
     dest |-> PathJoin(<<rootDirPath, fileManifestName>>)]

\* .then(() => process.exit(0)).catch(() => process.exit(1))
ExitStatusAlwaysZero(settled) == 0
ExitStatus(settled) == IF settled = "resolved" THEN 0 ELSE 1

-----------------------------------------------------------------------------
\* Inputs: the answers of the prompts and the content of the Config Store.

Str(name) == <<name>>

RootAnswers == {EmptyStr, Str("build"), <<"build", "">>, <<".", "build">>,
                <<"", "w", "site">>, <<"", "srv">>}

ExtensionAnswers == {{"html"}, {"js", "css"}}

FileNameAnswers == {Str("sw.js"), <<"js", "out.js">>}

SavedRoot == <<"build", "">>
SavedDest == <<"build", "sw.js">>

Opt(k, vals) == {EmptyConfig} \cup {k :> v : v \in vals}

\* What the configuration file may hold: written by an earlier run, or by hand.
SavedConfigs ==
    {a @@ b @@ c @@ d :
        a \in Opt("rootDirectory", {EmptyStr, SavedRoot}),
        b \in Opt("globPatterns", {<<GenerateGlobPattern(SavedRoot, {"html"})>>}),
        c \in Opt("dest", {SavedDest}),
        d \in Opt("globIgnores", {<<SavedDest>>, <<<<"build", "old.js">>>>})}

NoFile == [exists |-> FALSE, cfg |-> EmptyConfig]

Files == {NoFile} \cup {[exists |-> TRUE, cfg |-> c] : c \in SavedConfigs}

RECURSIVE SeqsUpTo(_, _)
SeqsUpTo(S, n) ==
    IF n = 0 THEN {<<>>}
    ELSE SeqsUpTo(S, n - 1)
            \cup {Append(s, t) : s \in {q \in SeqsUpTo(S, n - 1) : Len(q) = n - 1}, t \in S}

-----------------------------------------------------------------------------
VARIABLES
    argv,           \* the command line still to be parsed
    file,           \* the Config Store: the configuration file, if any
    pc,             \* the callback of the promise chain that runs next
    command,        \* cliArgs._[0], '' when there is none
    flags,          \* the flags of cliArgs that are truthy
    config,         \* config of _generateSW
    saveConfig,     \* the value the save question's callback hands on
    rootDirPath,    \* locals of _generateBuildManifest
    fileExtentionsToCache,
    fileManifestName,
    loaded,         \* what getConfigFile resolved with
    trail,          \* the collaborator calls made so far, each with its outcome
    calls,          \* the Build Delegate calls, each with its argument
    out,            \* what was logged
    exitCode        \* the argument of process.exit, -1 while running

vars == <<argv, file, pc, command, flags, config, saveConfig, rootDirPath,
          fileExtentionsToCache, fileManifestName, loaded, trail, calls, out,
          exitCode>>

swVars == <<config, saveConfig, loaded>>
mfVars == <<rootDirPath, fileExtentionsToCache, fileManifestName>>

Init ==
    /\ argv \in SeqsUpTo(Tokens, MaxArgs)
    /\ file \in Files
    /\ pc = "argv"
    /\ command = ""
    /\ flags = {}
    /\ config = EmptyConfig
    /\ saveConfig = FALSE
    /\ rootDirPath = EmptyStr
    /\ fileExtentionsToCache = {}
    /\ fileManifestName = EmptyStr
    /\ loaded = NoFile
    /\ trail = <<>>
    /\ calls = <<>>
    /\ out = <<>>
    /\ exitCode = -1

Did(op, ok) == trail' = Append(trail, [op |-> op, ok |-> ok])

\* A collaborator's promise rejects: the chain skips to the catch of argv.
Rejects(op) ==
    /\ Did(op, FALSE)
    /\ pc' = "rejected"

\* argv(argv), down to the call of handleCommand or handleFlag.
Argv ==
    /\ pc = "argv"
    /\ LET cliArgs == Minimist(argv, NoArgs) IN
        /\ flags' = cliArgs.flags
        /\ IF HasCommand(cliArgs)
           THEN command' = cliArgs.positional[1] /\ pc' = "handleCommand"
           ELSE command' = "" /\ pc' = "handleFlag"
    /\ argv' = <<>>
    /\ UNCHANGED <<file, swVars, mfVars, trail, calls, out, exitCode>>

HandleFlag ==
    /\ pc = "handleFlag"
    /\ IF FlagHandled(flags)
       THEN out' = out \o FlagOutput(flags) /\ pc' = "resolved"
       ELSE out' = out \o FlagOutput(flags) \o <<"help">> /\ pc' = "rejected"
    /\ UNCHANGED <<argv, file, command, flags, swVars, mfVars, trail, calls, exitCode>>

HandleCommand ==
    /\ pc = "handleCommand"
    /\ CASE Route(command) = "sw" -> pc' = "getConfigFile" /\ out' = out
         [] Route(command) = "manifest" -> pc' = "askRootForManifest" /\ out' = out
         [] OTHER -> out' = Append(out, "error") /\ pc' = "rejected"
    /\ UNCHANGED <<argv, file, command, flags, swVars, mfVars, trail, calls, exitCode>>

\* _generateSW: getConfigFile() and the callback that takes its result.
GetConfigFile ==
    /\ pc = "getConfigFile"
    /\ \/ /\ Did("getConfigFile", TRUE)
          /\ loaded' = file
          /\ config' = IF file.exists THEN Loaded(file.cfg) ELSE config
          /\ pc' = "rootDirectory"
       \/ Rejects("getConfigFile") /\ UNCHANGED <<loaded, config>>
    /\ UNCHANGED <<argv, file, command, flags, saveConfig, mfVars, calls, out, exitCode>>

RootDirectoryStep ==
    /\ pc = "rootDirectory"
    /\ IF AsksRoot(config)
       THEN \/ \E rDirectory \in RootAnswers :
                 /\ Did("askForRootOfWebApp", TRUE)
                 /\ config' = Set(config, "rootDirectory", PrettyRelative(rDirectory))
                 /\ pc' = "globPatterns"
            \/ Rejects("askForRootOfWebApp") /\ config' = config
       ELSE pc' = "globPatterns" /\ UNCHANGED <<config, trail>>
    /\ UNCHANGED <<argv, file, command, flags, saveConfig, loaded, mfVars, calls, out, exitCode>>

GlobPatternsStep ==
    /\ pc = "globPatterns"
    /\ IF AsksExtensions(config)
       THEN \/ \E extensionsToCache \in ExtensionAnswers :
                 /\ Did("askForExtensionsToCache", TRUE)
                 /\ config' = Set(config, "globPatterns",
                        <<GenerateGlobPattern(config["rootDirectory"], extensionsToCache)>>)
                 /\ pc' = "dest"
            \/ Rejects("askForExtensionsToCache") /\ config' = config
       ELSE pc' = "dest" /\ UNCHANGED <<config, trail>>
    /\ UNCHANGED <<argv, file, command, flags, saveConfig, loaded, mfVars, calls, out, exitCode>>

DestStep ==
    /\ pc = "dest"
    /\ IF AsksName(config)
       THEN \/ \E swName \in FileNameAnswers :
                 /\ Did("askForServiceWorkerName", TRUE)
                 /\ config' = WithDest(config, swName)
                 /\ pc' = "askSaveConfigFile"
            \/ Rejects("askForServiceWorkerName") /\ config' = config
       ELSE pc' = "askSaveConfigFile" /\ UNCHANGED <<config, trail>>
    /\ UNCHANGED <<argv, file, command, flags, saveConfig, loaded, mfVars, calls, out, exitCode>>

AskSaveStep ==
    /\ pc = "askSaveConfigFile"
    /\ IF NotSaved(config)
       THEN \/ \E answer \in BOOLEAN :
                 /\ Did("askSaveConfigFile", TRUE)
                 /\ saveConfig' = answer
                 /\ pc' = "saveConfigFile"
            \/ Rejects("askSaveConfigFile") /\ saveConfig' = saveConfig
       ELSE saveConfig' = FALSE /\ pc' = "saveConfigFile" /\ trail' = trail
    /\ UNCHANGED <<argv, file, command, flags, config, loaded, mfVars, calls, out, exitCode>>

SaveStep ==
    /\ pc = "saveConfigFile"
    /\ IF saveConfig
       THEN \/ /\ Did("saveConfigFile", TRUE)
               /\ file' = [exists |-> TRUE, cfg |-> config]
               /\ pc' = "generateSW"
            \/ Rejects("saveConfigFile") /\ file' = file
       ELSE pc' = "generateSW" /\ UNCHANGED <<file, trail>>
    /\ UNCHANGED <<argv, command, flags, swVars, mfVars, calls, out, exitCode>>

GenerateSW ==
    /\ pc = "generateSW"
    /\ calls' = Append(calls, [op |-> "generateSW", config |-> config])
    /\ \/ Did("generateSW", TRUE) /\ pc' = "resolved"
       \/ Rejects("generateSW")
    /\ UNCHANGED <<argv, file, command, flags, swVars, mfVars, out, exitCode>>

\* _generateBuildManifest
AskRootForManifest ==
    /\ pc = "askRootForManifest"
    /\ \/ \E rDirectory \in RootAnswers :
            /\ Did("askForRootOfWebApp", TRUE)
            /\ rootDirPath' = rDirectory
            /\ pc' = "askExtensionsForManifest"
       \/ Rejects("askForRootOfWebApp") /\ rootDirPath' = rootDirPath
    /\ UNCHANGED <<argv, file, command, flags, swVars, fileExtentionsToCache,
                   fileManifestName, calls, out, exitCode>>

AskExtensionsForManifest ==
    /\ pc = "askExtensionsForManifest"
    /\ \/ \E extensionsToCache \in ExtensionAnswers :
            /\ Did("askForExtensionsToCache", TRUE)
            /\ fileExtentionsToCache' = extensionsToCache
            /\ pc' = "askManifestFileName"
       \/ Rejects("askForExtensionsToCache")
            /\ fileExtentionsToCache' = fileExtentionsToCache
    /\ UNCHANGED <<argv, file, command, flags, swVars, rootDirPath,
                   fileManifestName, calls, out, exitCode>>

AskManifestFileName ==
    /\ pc = "askManifestFileName"
    /\ \/ \E manifestName \in FileNameAnswers :
            /\ Did("askManifestFileName", TRUE)
            /\ fileManifestName' = manifestName
            /\ pc' = "generateFileManifest"
       \/ Rejects("askManifestFileName") /\ fileManifestName' = fileManifestName
    /\ UNCHANGED <<argv, file, command, flags, swVars, rootDirPath,
                   fileExtentionsToCache, calls, out, exitCode>>

GenerateFileManifest ==
    /\ pc = "generateFileManifest"
    /\ calls' = Append(calls,
            [op |-> "generateFileManifest",
             config |-> ManifestConfig(rootDirPath, fileExtentionsToCache, fileManifestName)])
    /\ \/ Did("generateFileManifest", TRUE) /\ pc' = "resolved"
       \/ Rejects("generateFileManifest")
    /\ UNCHANGED <<argv, file, command, flags, swVars, mfVars, out, exitCode>>

\* The then and the catch of argv.
Exit ==
    /\ pc \in {"resolved", "rejected"}
    /\ exitCode' = ExitStatus(pc)
    /\ pc' = "exited"
    /\ UNCHANGED <<argv, file, command, flags, swVars, mfVars, trail, calls, out>>

Next ==
    \/ Argv
    \/ HandleFlag
    \/ HandleCommand
    \/ GetConfigFile
    \/ RootDirectoryStep
    \/ GlobPatternsStep
    \/ DestStep
    \/ AskSaveStep
    \/ SaveStep
    \/ GenerateSW
    \/ AskRootForManifest
    \/ AskExtensionsForManifest
    \/ AskManifestFileName
    \/ GenerateFileManifest
    \/ Exit

Spec == Init /\ [][Next]_vars

-----------------------------------------------------------------------------
\* Vocabulary of the properties.

TrailOps == [i \in DOMAIN trail |-> trail[i].op]

Called(op) == \E i \in DOMAIN trail : trail[i].op = op

Answered(op) == \E i \in DOMAIN trail : trail[i].op = op /\ trail[i].ok

Times(op) == Cardinality({i \in DOMAIN trail : trail[i].op = op})

SomeRejection == \E i \in DOMAIN trail : ~trail[i].ok

Prompts == {"askForRootOfWebApp", "askForExtensionsToCache",
            "askForServiceWorkerName", "askSaveConfigFile", "askManifestFileName"}

\* The place of a collaborator call in the generate:sw sequence.
StepOf(op) ==
    CASE op = "getConfigFile" -> 1
      [] op = "askForRootOfWebApp" -> 2
      [] op = "askForExtensionsToCache" -> 3
      [] op = "askForServiceWorkerName" -> 4
      [] op = "askSaveConfigFile" -> 5
      [] op = "saveConfigFile" -> 6
      [] op = "generateSW" -> 7
      [] OTHER -> 0

StepOfPc ==
    CASE pc = "getConfigFile" -> 1
      [] pc = "rootDirectory" -> 2
      [] pc = "globPatterns" -> 3
      [] pc = "dest" -> 4
      [] pc = "askSaveConfigFile" -> 5
      [] pc = "saveConfigFile" -> 6
      [] pc = "generateSW" -> 7
      [] pc = "resolved" -> 8
      [] OTHER -> 0

\* The generate:sw run has left step n behind without a rejection in it.
Passed(n) ==
    \/ StepOfPc > n
    \/ /\ pc \in {"rejected", "exited"}
       /\ trail # <<>>
       /\ LET last == trail[Len(trail)]
          IN  StepOf(last.op) > n \/ (StepOf(last.op) = n /\ last.ok)

\* The configuration as the load step left it.
AfterLoad == IF loaded.exists THEN loaded.cfg ELSE EmptyConfig

UnsetAfterLoad(k) == k \notin DOMAIN AfterLoad \/ AfterLoad[k] = <<"">>

Contains(list, x) == \E i \in DOMAIN list : list[i] = x

IgnoresDest(cfg) ==
    /\ "dest" \in DOMAIN cfg
    /\ "globIgnores" \in DOMAIN cfg
    /\ Contains(cfg["globIgnores"], cfg["dest"])

FlagMode == pc = "exited" /\ command = ""

-----------------------------------------------------------------------------
\* C1: in generate:sw a rejecting step is the last collaborator call of the
\* run (no prompt, save or delegate call follows it) and the process then
\* exits with 1; it exits with 0 only when every step succeeded, the
\* generateSW call last.
C1_RejectionAbortsGenerateSW ==
    command = "generate:sw" =>
        /\ \A i \in DOMAIN trail : ~trail[i].ok => i = Len(trail)
        /\ SomeRejection => pc \in {"rejected", "exited"} /\ exitCode # 0
        /\ pc = "exited" => exitCode = IF SomeRejection THEN 1 ELSE 0
        /\ exitCode = 0 =>
            /\ trail # <<>>
            /\ trail[Len(trail)] = [op |-> "generateSW", ok |-> TRUE]
            /\ ~SomeRejection

C1_Witness ==
    /\ command = "generate:sw"
    /\ TrailOps = <<"getConfigFile", "askForRootOfWebApp", "askForExtensionsToCache",
                    "askForServiceWorkerName", "askSaveConfigFile", "saveConfigFile">>
    /\ ~trail[6].ok
    /\ calls = <<>>
    /\ exitCode = 1

\* C2: a command token other than generate:sw and generate:manifest ends in
\* exit code 1 whatever the flags, with no prompt, no Config Store access and
\* no Build Delegate call.
C2_UnknownCommandRejected ==
    (pc # "argv" /\ command \notin {"", "generate:sw", "generate:manifest"}) =>
        /\ trail = <<>>
        /\ calls = <<>>
        /\ pc \in {"handleCommand", "rejected", "exited"}
        /\ exitCode # 0
        /\ pc = "exited" => exitCode = 1

C2_Witness ==
    /\ command = "generate"
    /\ flags = {"help", "v"}
    /\ exitCode = 1
    /\ trail = <<>>

\* C3: the Config Store is written (saveConfigFile called) only in a
\* generate:sw run that loaded no saved configuration, right after the save
\* question was answered yes, with rootDirectory, globPatterns, dest and
\* globIgnores populated, at most once, and before any generateSW call.
C3_SaveOnlyWhenConfirmed ==
    [][(file' # file \/ Times("saveConfigFile")' > Times("saveConfigFile")) =>
        /\ command = "generate:sw"
        /\ ~loaded.exists
        /\ trail # <<>>
        /\ trail[Len(trail)] = [op |-> "askSaveConfigFile", ok |-> TRUE]
        /\ saveConfig
        /\ \A k \in {"rootDirectory", "globPatterns", "dest", "globIgnores"} :
              k \in DOMAIN config /\ config[k] # <<>>
        /\ config["rootDirectory"] # <<"">>
        /\ config["dest"] # <<"">>
        /\ Times("saveConfigFile") = 0
        /\ calls = <<>>
        /\ calls' = <<>>
        /\ file' \in {file, [exists |-> TRUE, cfg |-> config]}]_vars

C3_Witness ==
    /\ command = "generate:sw"
    /\ ~loaded.exists
    /\ Answered("saveConfigFile")
    /\ file = [exists |-> TRUE, cfg |-> config]
    /\ exitCode = 0

C5_GlobIgnoresContainDest ==
    \A i \in DOMAIN calls : IgnoresDest(calls[i].config)

\* C6: generate:manifest never reads or writes the Config Store, asks root
\* directory, extensions and manifest name in that order without skipping
\* any, and then calls generateFileManifest, once, with exactly rootDirectory,
\* globPatterns, globIgnores and dest.
C6_ManifestNeverShortCircuits ==
    command = "generate:manifest" =>
        /\ ~Called("getConfigFile")
        /\ ~Called("saveConfigFile")
        /\ loaded = NoFile
        /\ Len(trail) <= 4
        /\ TrailOps = SubSeq(<<"askForRootOfWebApp", "askForExtensionsToCache",
                               "askManifestFileName", "generateFileManifest">>,
                             1, Len(trail))
        /\ Len(calls) <= 1
        /\ calls # <<>> =>
            /\ Len(trail) = 4
            /\ \A i \in 1..3 : trail[i].ok
            /\ calls[1].op = "generateFileManifest"
            /\ DOMAIN calls[1].config =
                  {"rootDirectory", "globPatterns", "globIgnores", "dest"}
        /\ exitCode = 0 => Len(calls) = 1 /\ trail[4].ok

C6_Witness ==
    /\ command = "generate:manifest"
    /\ file.exists
    /\ DOMAIN file.cfg = {"rootDirectory", "globPatterns", "globIgnores", "dest"}
    /\ Len(calls) = 1
    /\ exitCode = 0

\* C7 as stated: with no command token and -v or --version, the output is
\* exactly the version string and the exit code is 0, whatever the other flags.
C7_VersionOutputExact ==
    (FlagMode /\ flags \cap {"v", "version"} # {}) =>
        out = <<"version">> /\ exitCode = 0

\* C7 amended: with no command token and -v or --version the exit code is 0
\* whatever the other flags; the output is exactly the version string when
\* neither -h nor --help is set, and the help text followed by the version
\* string when one of them is.
C7_VersionAfterHelp ==
    (FlagMode /\ flags \cap {"v", "version"} # {}) =>
        /\ exitCode = 0
        /\ out = IF flags \cap {"h", "help"} = {}
                 THEN <<"version">>
                 ELSE <<"help", "version">>

C7_Witness ==
    /\ FlagMode
    /\ flags = {"h", "version"}
    /\ out = <<"help", "version">>
    /\ exitCode = 0

\* C8: with no command token the exit code is 0 exactly when one of h, help,
\* v, version is set; h or help prints the help text; with none of the four
\* the help text is printed exactly once and the exit code is 1.
C8_FlagOnlyExitCode ==
    FlagMode =>
        /\ exitCode = 0 <=> flags \cap {"h", "help", "v", "version"} # {}
        /\ exitCode \in {0, 1}
        /\ flags \cap {"h", "help"} # {} => Contains(out, "help")
        /\ flags \cap {"h", "help", "v", "version"} = {} => out = <<"help">> /\ exitCode = 1

C8_Witness ==
    /\ FlagMode
    /\ flags = {}
    /\ out = <<"help">>
    /\ exitCode = 1

\* C9: the rootDirectory of every configuration handed to a Build Delegate
\* operation is a relative path that ends in a separator, the form the
\* normalization of the root-directory answer produces.
C9_RootDirectoryNormalized ==
    \A i \in DOMAIN calls :
        LET root == calls[i].config["rootDirectory"]
        IN  /\ ~(Len(root) > 1 /\ root[1] = "")
            /\ Len(root) > 1
            /\ root[Len(root)] = ""

\* C10: a generate:sw run that loaded a saved configuration never asks the
\* save question and never calls saveConfigFile, also when fields were filled
\* in by prompts, so the Config Store keeps what was loaded; the configuration
\* generateSW receives has wasSaved = true.
C10_LoadedConfigNeverSavedBack ==
    (command = "generate:sw" /\ loaded.exists) =>
        /\ ~Called("askSaveConfigFile")
        /\ ~Called("saveConfigFile")
        /\ file = loaded
        /\ \A i \in DOMAIN calls :
              /\ "wasSaved" \in DOMAIN calls[i].config
              /\ calls[i].config["wasSaved"] = TRUE

C10_Witness ==
    /\ command = "generate:sw"
    /\ loaded.exists
    /\ DOMAIN loaded.cfg = {"globPatterns"}
    /\ Answered("askForRootOfWebApp")
    /\ Answered("askForServiceWorkerName")
    /\ Len(calls) = 1
    /\ calls[1].config["dest"] # <<"">>
    /\ file.cfg = loaded.cfg
    /\ exitCode = 0

====
